---- MODULE Spec2Model ----
(***************************************************************************)
(* Model of the headerless pool allocator of                               *)
(* source/lib/allocators/headerless.cpp.                                   *)
(*                                                                         *)
(* Memory is modelled word by word (4-byte words, ILP32 layout of          *)
(* FreedBlock: m_magic, prev, next, m_size, m_id), so that the boundary    *)
(* tags and the freelist links are what the code actually writes into and  *)
(* reads back from the freed memory.  Addresses are byte addresses.        *)
(* A 32-bit word is held as the integer of its two's complement reading    *)
(* (0xFF55AA00 is -11163136, ~0u is -1) and compared unsigned, as size_t   *)
(* is, by ULess.                                                           *)
(* debug_assert failures halt the allocator (err # "none"); a list walk    *)
(* that never returns to its sentinel is the outcome "hang".               *)
(* The contents of live allocations are whatever the allocator last left   *)
(* there: user data is taken not to reproduce the id+magic pair (the       *)
(* caveat of lines 374-376 of the source).                                 *)
(***************************************************************************)
EXTENDS Integers, Sequences, FiniteSets, TLC

(* ------------------------------ bounds -------------------------------- *)
\* capacity of the pool, in 16-byte granules
MaxGranules == 10
\* largest size passed to Allocate, in 16-byte granules
MaxSizeGranules == 5
\* Allocate calls between two Resets (caps Stats' running totals)
MaxAllocs == 3

(* ------------------------- program constants -------------------------- *)
minAlignment == 16
sizeofFreedBlock == 20
OffMagic == 0
OffPrev == 4
OffNext == 8
OffSize == 12
OffId == 16
s_magic == -11163136
s_headerId == 287215215
s_footerId == 1299469122
PoisonSize == -1
numRangeLists == 32
sizeofRangeList == 28
WordBytes == 4
\* where the pool's storage and the Impl object's sentinels live
PoolBase == 4096
ImplBase == 1024

PoolSize == MaxGranules * minAlignment
NoErr == "none"

Pow2(n) == 2 ^ n
BIT(n) == Pow2(n)

\* x < y and x >= y on unsigned 32-bit words
ULess(x, y) == IF (x < 0) = (y < 0) THEN x < y ELSE y < 0
UGeq(x, y) == ~ULess(x, y)

RECURSIVE ceil_log2_from(_, _)
ceil_log2_from(x, k) == IF Pow2(k) >= x THEN k ELSE ceil_log2_from(x, k + 1)
ceil_log2(x) == IF x < 0 THEN 32 ELSE ceil_log2_from(x, 0)

IsValidSize(size) ==
    IF ULess(size, sizeofFreedBlock) THEN FALSE
    ELSE IF size % minAlignment # 0 THEN FALSE
    ELSE TRUE

(* ------------------------------ memory -------------------------------- *)
Classes == 0 .. (numRangeLists - 1)
SentinelAddr(c) == ImplBase + c * sizeofRangeList
Sentinels == { SentinelAddr(c) : c \in Classes }
PoolWords == { PoolBase + WordBytes * i : i \in 0 .. ((PoolSize \div WordBytes) - 1) }
SentinelWords == { s + OffPrev : s \in Sentinels } \cup { s + OffNext : s \in Sentinels }
Addrs == PoolWords \cup SentinelWords

\* a value no field ever holds: what a read through a wild pointer yields
Wild == -2
Rd(a, x) == IF x \in Addrs THEN a.mem[x] ELSE Wild
Wr(a, x, v) == IF x \in Addrs THEN [a EXCEPT !.mem[x] = v] ELSE [a EXCEPT !.err = "wild write"]
Fail(a, e) == IF a.err = NoErr THEN [a EXCEPT !.err = e] ELSE a

(* FreedBlock *)
FreedBlockCtor(a, p, id, size) ==
    Wr(Wr(Wr(a, p + OffMagic, s_magic), p + OffSize, size), p + OffId, id)

FreedBlockDtor(a, p) ==
    Wr(Wr(Wr(Wr(Wr(a, p + OffPrev, 0), p + OffNext, 0), p + OffId, 0), p + OffSize, PoisonSize), p + OffMagic, 0)

Size(a, p) == Rd(a, p + OffSize)

IsFreedBlock(a, p, id) ==
    IF Rd(a, p + OffId) # id THEN FALSE
    ELSE IF Rd(a, p + OffMagic) # s_magic THEN FALSE
    ELSE TRUE

\* FreedBlock::Validate: the name of the first failing assertion, or NoErr
FreedBlockValidate(a, p, id) ==
    IF ~IsValidSize(Size(a, p)) THEN "FreedBlock::Validate size (88)"
    ELSE IF ~IsFreedBlock(a, p, id) THEN "FreedBlock::Validate id (89)"
    ELSE NoErr

(* ----------------------------- RangeList ------------------------------ *)
\* "x = e; Op(x)": e is evaluated once and named
Then(e, Op(_)) == Op(e)

\* steps after which a list walk that has not met its sentinel never will
WalkFuel == MaxGranules + 1

RangeListReset(a, c) ==
    [Wr(Wr(a, SentinelAddr(c) + OffPrev, SentinelAddr(c)), SentinelAddr(c) + OffNext, SentinelAddr(c))
        EXCEPT !.rl[c] = [m_freeBlocks |-> 0, m_freeBytes |-> 0]]

\* the blocks a loop "for(b = start; b != &m_sentinel; b = b->link)" visits
RECURSIVE Walk(_, _, _, _, _, _)
Walk(a, cur, sent, link, fuel, acc) ==
    IF cur = sent THEN [ok |-> TRUE, seq |-> acc]
    ELSE IF fuel = 0 THEN [ok |-> FALSE, seq |-> acc]
    ELSE Walk(a, Rd(a, cur + link), sent, link, fuel - 1, Append(acc, cur))

Forward(a, c) == Walk(a, Rd(a, SentinelAddr(c) + OffNext), SentinelAddr(c), OffNext, WalkFuel, << >>)
Backward(a, c) == Walk(a, Rd(a, SentinelAddr(c) + OffPrev), SentinelAddr(c), OffPrev, WalkFuel, << >>)

\* variant: the comparison is the other way round
ShouldInsertBefore_Reversed(current, successor) == current > successor

ShouldInsertBefore(current, successor) == current < successor

\* the successor found by Insert's loop; Wild when the loop never ends
RECURSIVE FindSuccessor(_, _, _, _, _)
FindSuccessor(a, successor, sent, freedBlock, fuel) ==
    IF successor = sent THEN successor
    ELSE IF ShouldInsertBefore(freedBlock, successor) THEN successor
    ELSE IF fuel = 0 THEN Wild
    ELSE FindSuccessor(a, Rd(a, successor + OffNext), sent, freedBlock, fuel - 1)

RangeListInsert(a, c, freedBlock) ==
    IF a.err # NoErr THEN a
    ELSE Then(FindSuccessor(a, Rd(a, SentinelAddr(c) + OffNext), SentinelAddr(c), freedBlock, WalkFuel),
         LAMBDA successor :
            IF successor = Wild THEN Fail(a, "hang")
            ELSE Then(Wr(a, freedBlock + OffPrev, Rd(a, successor + OffPrev)), LAMBDA a1 :
                 Then(Wr(a1, freedBlock + OffNext, successor), LAMBDA a2 :
                 Then(Wr(a2, Rd(a2, successor + OffPrev) + OffNext, freedBlock), LAMBDA a3 :
                 Then(Wr(a3, successor + OffPrev, freedBlock), LAMBDA a4 :
                    [a4 EXCEPT !.rl[c] = [m_freeBlocks |-> a4.rl[c].m_freeBlocks + 1,
                                          m_freeBytes |-> a4.rl[c].m_freeBytes + Size(a4, freedBlock)]])))))

\* the first block of the sequence of size >= minSize, or 0
RECURSIVE FirstFit(_, _, _, _)
FirstFit(a, seq, i, minSize) ==
    IF i > Len(seq) THEN 0
    ELSE IF UGeq(Size(a, seq[i]), minSize) THEN seq[i]
    ELSE FirstFit(a, seq, i + 1, minSize)

\* variant: the last fitting block of the list is taken, not the first
RangeListFind_LastFit(a, c, minSize) ==
    Then(Backward(a, c), LAMBDA w :
        [a |-> a, blk |-> FirstFit(a, w.seq, 1, minSize)])

\* [a |-> state (err set when an assertion fails), blk |-> block found or 0]
RangeListFind(a, c, minSize) ==
    Then(Forward(a, c), LAMBDA w :
    Then(FirstFit(a, w.seq, 1, minSize), LAMBDA hit :
        IF hit # 0 THEN [a |-> a, blk |-> hit]
        ELSE IF ~w.ok THEN [a |-> Fail(a, "hang"), blk |-> 0]
        ELSE IF a.rl[c].m_freeBlocks = 0
            THEN [a |-> Fail(a, "RangeList::Find division by zero (188)"), blk |-> 0]
        ELSE IF ~((a.rl[c].m_freeBytes \div a.rl[c].m_freeBlocks) < minSize)
            THEN [a |-> Fail(a, "RangeList::Find average (188)"), blk |-> 0]
        ELSE [a |-> a, blk |-> 0]))

RangeListRemove(a, c, freedBlock) ==
    IF a.err # NoErr THEN a
    ELSE Then(Wr(a, Rd(a, freedBlock + OffNext) + OffPrev, Rd(a, freedBlock + OffPrev)), LAMBDA a1 :
         Then(Wr(a1, Rd(a1, freedBlock + OffPrev) + OffNext, Rd(a1, freedBlock + OffNext)), LAMBDA a2 :
            IF a2.rl[c].m_freeBlocks = 0 THEN Fail(a2, "RangeList::Remove blocks (197)")
            ELSE IF ~UGeq(a2.rl[c].m_freeBytes, Size(a2, freedBlock))
                THEN Fail(a2, "RangeList::Remove bytes (198)")
            ELSE [a2 EXCEPT !.rl[c] = [m_freeBlocks |-> a2.rl[c].m_freeBlocks - 1,
                                       m_freeBytes |-> a2.rl[c].m_freeBytes - Size(a2, freedBlock)]]))

RangeListIsEmpty(a, c) == a.rl[c].m_freeBlocks = 0

RECURSIVE SumSizes(_, _, _)
SumSizes(a, seq, i) == IF i > Len(seq) THEN 0 ELSE Size(a, seq[i]) + SumSizes(a, seq, i + 1)

\* the first failing FreedBlock::Validate along a walk, or NoErr
RECURSIVE FirstInvalid(_, _, _, _)
FirstInvalid(a, seq, i, id) ==
    IF i > Len(seq) THEN NoErr
    ELSE Then(FreedBlockValidate(a, seq[i], id), LAMBDA e :
            IF e # NoErr THEN e ELSE FirstInvalid(a, seq, i + 1, id))

\* RangeList::Validate: the first failing assertion, "hang", or NoErr
RangeListValidate(a, c, id) ==
    Then(Forward(a, c), LAMBDA fw :
    Then(FirstInvalid(a, fw.seq, 1, id), LAMBDA e1 :
        IF e1 # NoErr THEN e1
        ELSE IF ~fw.ok THEN "hang"
        ELSE Then(Backward(a, c), LAMBDA bw :
             Then(FirstInvalid(a, bw.seq, 1, id), LAMBDA e2 :
                IF e2 # NoErr THEN e2
                ELSE IF ~bw.ok THEN "hang"
                ELSE IF ~(Len(fw.seq) + Len(bw.seq) = a.rl[c].m_freeBlocks * 2
                          /\ SumSizes(a, fw.seq, 1) + SumSizes(a, bw.seq, 1) = a.rl[c].m_freeBytes * 2)
                    THEN "RangeList::Validate counts (224)"
                ELSE IF ~(~RangeListIsEmpty(a, c)
                          \/ (Rd(a, SentinelAddr(c) + OffNext) = SentinelAddr(c)
                              /\ Rd(a, SentinelAddr(c) + OffPrev) = SentinelAddr(c)))
                    THEN "RangeList::Validate empty (226)"
                ELSE NoErr))))

(* ------------------------ SegregatedRangeLists ------------------------ *)
SizeClass(size) == ceil_log2(size)

RECURSIVE ValueOfLeastSignificantOneBit(_)
ValueOfLeastSignificantOneBit(x) ==
    IF x = 0 THEN 0
    ELSE IF x % 2 = 1 THEN 1
    ELSE 2 * ValueOfLeastSignificantOneBit(x \div 2)

\* (bit 31 is the sign of the word)
BitSet(bitmap, i) == IF i >= 31 THEN bitmap < 0 ELSE (bitmap \div BIT(i)) % 2 = 1
SetBit(bitmap, i) == IF BitSet(bitmap, i) THEN bitmap ELSE bitmap + BIT(i)
ClearBit(bitmap, i) == IF BitSet(bitmap, i) THEN bitmap - BIT(i) ELSE bitmap
\* m_bitmap & (~0u << n)
MaskFrom(bitmap, n) == (bitmap \div BIT(n)) * BIT(n)

\* the class whose sentinel holds word x
ClassOfSentinelWord(x) == CHOOSE c \in Classes : x \in {SentinelAddr(c) + OffPrev, SentinelAddr(c) + OffNext}

\* every list is reset; each Reset writes its own sentinel and counters only
SegregatedReset(a) ==
    [a EXCEPT !.m_bitmap = 0,
              !.mem = [x \in Addrs |->
                          IF x \in SentinelWords
                          THEN RangeListReset(a, ClassOfSentinelWord(x)).mem[x]
                          ELSE a.mem[x]],
              !.rl = [c \in Classes |-> RangeListReset(a, c).rl[c]]]

SegregatedInsert(a, freedBlock) ==
    IF a.err # NoErr THEN a
    ELSE Then(SizeClass(Size(a, freedBlock)), LAMBDA sizeClass :
         Then(RangeListInsert(a, sizeClass, freedBlock), LAMBDA a1 :
            IF a1.err # NoErr THEN a1
            ELSE [a1 EXCEPT !.m_bitmap = SetBit(a1.m_bitmap, sizeClass)]))

\* the while loop of SegregatedRangeLists::Find over the remaining class bits
RECURSIVE FindLoop(_, _, _)
FindLoop(a, sizeClassBits, minSize) ==
    IF sizeClassBits = 0
    THEN IF ~(a.m_bitmap < BIT(SizeClass(minSize) + 1))
         THEN [a |-> Fail(a, "SegregatedRangeLists::Find bitmap (301)"), blk |-> 0]
         ELSE [a |-> a, blk |-> 0]
    ELSE Then(ValueOfLeastSignificantOneBit(sizeClassBits), LAMBDA size :
         Then(RangeListFind(a, SizeClass(size), minSize), LAMBDA r :
            IF r.blk # 0 THEN r
            ELSE IF r.a.err # NoErr THEN r
            ELSE FindLoop(a, sizeClassBits - size, minSize)))

\* variant: the list of the request's class is searched whatever the bitmap says
SegregatedFind_BitmapIgnored(a, minSize) ==
    FindLoop(a, BIT(SizeClass(minSize)), minSize)

SegregatedFind(a, minSize) ==
    FindLoop(a, MaskFrom(a.m_bitmap, SizeClass(minSize)), minSize)

\* variant: the bit of a list that has become empty stays set
SegregatedRemove_BitKept(a, freedBlock) ==
    IF a.err # NoErr THEN a
    ELSE RangeListRemove(a, SizeClass(Size(a, freedBlock)), freedBlock)

SegregatedRemove(a, freedBlock) ==
    IF a.err # NoErr THEN a
    ELSE Then(SizeClass(Size(a, freedBlock)), LAMBDA sizeClass :
         Then(RangeListRemove(a, sizeClass, freedBlock), LAMBDA a1 :
            IF a1.err # NoErr THEN a1
            ELSE IF RangeListIsEmpty(a1, sizeClass)
                THEN [a1 EXCEPT !.m_bitmap = ClearBit(a1.m_bitmap, sizeClass)]
            ELSE a1))

RECURSIVE SegregatedValidateFrom(_, _, _)
SegregatedValidateFrom(a, i, id) ==
    IF i >= numRangeLists THEN NoErr
    ELSE Then(RangeListValidate(a, i, id), LAMBDA e :
            IF e # NoErr THEN e
            ELSE IF ~((~BitSet(a.m_bitmap, i)) = RangeListIsEmpty(a, i))
                THEN "SegregatedRangeLists::Validate bitmap (322)"
            ELSE SegregatedValidateFrom(a, i + 1, id))

SegregatedValidate(a, id) == SegregatedValidateFrom(a, 0, id)

RECURSIVE SumLists(_, _, _)
SumLists(a, i, bytes) ==
    IF i >= numRangeLists THEN 0
    ELSE (IF bytes THEN a.rl[i].m_freeBytes ELSE a.rl[i].m_freeBlocks) + SumLists(a, i + 1, bytes)

SegregatedFreeBlocks(a) == SumLists(a, 0, FALSE)
SegregatedFreeBytes(a) == SumLists(a, 0, TRUE)

(* ------------------------- BoundaryTagManager ------------------------- *)
Footer(a, freedBlock) == freedBlock + Size(a, freedBlock) - sizeofFreedBlock

\* BoundaryTagManager::Validate: the first failing assertion, or NoErr
BtmValidate(a, freedBlock) ==
    IF a.btm.m_freeBlocks = 0 THEN "BoundaryTagManager::Validate blocks (467)"
    ELSE IF ~UGeq(a.btm.m_freeBytes, Size(a, freedBlock)) THEN "BoundaryTagManager::Validate bytes (468)"
    ELSE Then(FreedBlockValidate(a, freedBlock, s_headerId), LAMBDA e :
            IF e # NoErr THEN e
            ELSE FreedBlockValidate(a, Footer(a, freedBlock), s_footerId))

WriteTags(a, p, size) ==
    IF a.err # NoErr THEN a
    ELSE Then(FreedBlockCtor(a, p, s_headerId, size), LAMBDA a1 :
         Then(FreedBlockCtor(a1, Footer(a1, p), s_footerId, size), LAMBDA a2 :
         Then([a2 EXCEPT !.btm = [m_freeBlocks |-> a2.btm.m_freeBlocks + 1,
                                  m_freeBytes |-> a2.btm.m_freeBytes + size],
                         !.tagged = a2.tagged \cup {<<p, size>>}], LAMBDA a3 :
            Fail(a3, BtmValidate(a3, p)))))

RemoveTags(a, freedBlock) ==
    IF a.err # NoErr THEN a
    ELSE Then(BtmValidate(a, freedBlock), LAMBDA v :
            IF v # NoErr THEN Fail(a, v)
            ELSE IF a.btm.m_freeBlocks = 0 THEN Fail(a, "RemoveTags blocks (405)")
            ELSE IF ~UGeq(a.btm.m_freeBytes, Size(a, freedBlock)) THEN Fail(a, "RemoveTags bytes (406)")
            ELSE Then(Footer(a, freedBlock), LAMBDA footer :
                    FreedBlockDtor(
                        FreedBlockDtor(
                            [a EXCEPT !.btm = [m_freeBlocks |-> a.btm.m_freeBlocks - 1,
                                               m_freeBytes |-> a.btm.m_freeBytes - Size(a, freedBlock)],
                                      !.tagged = { t \in a.tagged : t[1] # freedBlock }],
                            freedBlock),
                        footer)))

\* [a |-> state, blk |-> the free block ending at p, or 0]
\* variant: the footer in front of p is never recognised
PrecedingBlock_NeverFound(a, p, beginningOfPool) ==
    [a |-> a, blk |-> 0]

PrecedingBlock(a, p, beginningOfPool) ==
    IF p = beginningOfPool THEN [a |-> a, blk |-> 0]
    ELSE Then(p - sizeofFreedBlock, LAMBDA footer :
         Then([a EXCEPT !.probes = a.probes \cup {<<footer, p>>}], LAMBDA a1 :
            IF ~IsFreedBlock(a1, footer, s_footerId) THEN [a |-> a1, blk |-> 0]
            ELSE Then(FreedBlockValidate(a1, footer, s_footerId), LAMBDA e :
                    IF e # NoErr THEN [a |-> Fail(a1, e), blk |-> 0]
                    ELSE Then(p - Size(a1, footer), LAMBDA precedingBlock :
                         Then(BtmValidate(a1, precedingBlock), LAMBDA v :
                            IF v # NoErr THEN [a |-> Fail(a1, v), blk |-> 0]
                            ELSE [a |-> a1, blk |-> precedingBlock])))))

\* the state as a read sees it when the words at and beyond endOfPool,
\* which the pool never handed out, hold the arbitrary value g
Beyond(a, endOfPool, g) ==
    [a EXCEPT !.mem = [x \in Addrs |->
        IF x \in PoolWords /\ x >= endOfPool THEN g ELSE a.mem[x]]]

\* variant: the header behind the block is never recognised
FollowingBlock_NeverFound(a, p, size, endOfPool, g) ==
    [a |-> a, blk |-> 0]

\* [a |-> state, blk |-> the free block starting at p+size, or 0]
FollowingBlock(a, p, size, endOfPool, g) ==
    IF p + size = endOfPool THEN [a |-> a, blk |-> 0]
    ELSE Then(p + size, LAMBDA followingBlock :
         Then([a EXCEPT !.probes = a.probes \cup {<<followingBlock, followingBlock + sizeofFreedBlock>>}],
         LAMBDA a1 :
         Then(Beyond(a1, endOfPool, g), LAMBDA seen :
            IF ~IsFreedBlock(seen, followingBlock, s_headerId) THEN [a |-> a1, blk |-> 0]
            ELSE Then(BtmValidate(seen, followingBlock), LAMBDA v :
                    IF v # NoErr THEN [a |-> Fail(a1, v), blk |-> 0]
                    ELSE [a |-> a1, blk |-> followingBlock]))))

(* ------------------------------- Stats -------------------------------- *)
ZeroStats ==
    [m_totalAllocatedBlocks |-> 0, m_totalAllocatedBytes |-> 0,
     m_totalDeallocatedBlocks |-> 0, m_totalDeallocatedBytes |-> 0,
     m_currentExtantBlocks |-> 0, m_currentExtantBytes |-> 0,
     m_currentFreeBlocks |-> 0, m_currentFreeBytes |-> 0]

OnReset(a) == [a EXCEPT !.stats = ZeroStats]

OnAllocate(a, size) ==
    IF a.err # NoErr THEN a
    ELSE [a EXCEPT !.stats.m_totalAllocatedBlocks = @ + 1,
                   !.stats.m_totalAllocatedBytes = @ + size,
                   !.stats.m_currentExtantBlocks = @ + 1,
                   !.stats.m_currentExtantBytes = @ + size]

\* variant: the extant bytes are not reduced
OnDeallocate_ExtantBytesKept(a, size) ==
    IF a.err # NoErr THEN a
    ELSE [a EXCEPT !.stats.m_totalDeallocatedBlocks = @ + 1,
                   !.stats.m_totalDeallocatedBytes = @ + size,
                   !.stats.m_currentExtantBlocks = @ - 1]

OnDeallocate(a, size) ==
    IF a.err # NoErr THEN a
    ELSE Then([a EXCEPT !.stats.m_totalDeallocatedBlocks = @ + 1,
                        !.stats.m_totalDeallocatedBytes = @ + size], LAMBDA a1 :
            IF ~(a1.stats.m_totalDeallocatedBlocks <= a1.stats.m_totalAllocatedBlocks)
                THEN Fail(a1, "Stats::OnDeallocate blocks (519)")
            ELSE IF ~(a1.stats.m_totalDeallocatedBytes <= a1.stats.m_totalDeallocatedBytes)
                THEN Fail(a1, "Stats::OnDeallocate bytes (520)")
            ELSE IF a1.stats.m_currentExtantBlocks = 0
                THEN Fail(a1, "Stats::OnDeallocate extant blocks (522)")
            ELSE IF ~(a1.stats.m_currentExtantBytes >= size)
                THEN Fail(a1, "Stats::OnDeallocate extant bytes (523)")
            ELSE [a1 EXCEPT !.stats.m_currentExtantBlocks = @ - 1,
                            !.stats.m_currentExtantBytes = @ - size])

OnAddToFreelist(a, size) ==
    IF a.err # NoErr THEN a
    ELSE [a EXCEPT !.stats.m_currentFreeBlocks = @ + 1,
                   !.stats.m_currentFreeBytes = @ + size]

OnRemoveFromFreelist(a, size) ==
    IF a.err # NoErr THEN a
    ELSE IF a.stats.m_currentFreeBlocks = 0 THEN Fail(a, "Stats::OnRemoveFromFreelist blocks (538)")
    ELSE IF ~(a.stats.m_currentFreeBytes >= size) THEN Fail(a, "Stats::OnRemoveFromFreelist bytes (539)")
    ELSE [a EXCEPT !.stats.m_currentFreeBlocks = @ - 1,
                   !.stats.m_currentFreeBytes = @ - size]

\* Stats::Validate: the first failing assertion, or NoErr
StatsValidate(a) ==
    IF ~(a.stats.m_totalDeallocatedBlocks <= a.stats.m_totalAllocatedBlocks) THEN "Stats::Validate blocks (548)"
    ELSE IF ~(a.stats.m_totalDeallocatedBytes <= a.stats.m_totalAllocatedBytes) THEN "Stats::Validate bytes (549)"
    ELSE IF ~(a.stats.m_currentExtantBlocks = a.stats.m_totalAllocatedBlocks - a.stats.m_totalDeallocatedBlocks)
        THEN "Stats::Validate extant blocks (551)"
    ELSE IF ~(a.stats.m_currentExtantBytes = a.stats.m_totalAllocatedBytes - a.stats.m_totalDeallocatedBytes)
        THEN "Stats::Validate extant bytes (552)"
    ELSE NoErr

(* -------------------------------- Pool -------------------------------- *)
\* [a |-> state, p |-> address handed out, or 0]
pool_alloc(a, size) ==
    IF a.pos + size <= PoolSize
    THEN [a |-> [a EXCEPT !.pos = a.pos + size], p |-> PoolBase + a.pos]
    ELSE [a |-> a, p |-> 0]

\* the bump pointer returns to zero and the storage is released: it reads
\* as zero when the pool hands it out again
pool_free_all(a) ==
    [a EXCEPT !.pos = 0,
              !.mem = [x \in Addrs |-> IF x \in PoolWords THEN 0 ELSE a.mem[x]]]

pool_contains(a, p) == PoolBase <= p /\ p < PoolBase + a.pos

(* ---------------------- HeaderlessAllocator::Impl --------------------- *)
AssertEqual(x1, x2, x3) == x1 = x2 /\ x2 = x3

\* Impl::Validate: the first failing assertion, "hang", or NoErr
ValidateResult(a) ==
    Then(SegregatedValidate(a, s_headerId), LAMBDA e :
        IF e # NoErr THEN e
        ELSE Then(StatsValidate(a), LAMBDA v :
            IF v # NoErr THEN v
            ELSE IF ~AssertEqual(a.stats.m_currentFreeBlocks, SegregatedFreeBlocks(a), a.btm.m_freeBlocks)
                THEN "AssertEqual blocks (651)"
            ELSE IF ~AssertEqual(a.stats.m_currentFreeBytes, SegregatedFreeBytes(a), a.btm.m_freeBytes)
                THEN "AssertEqual bytes (652)"
            ELSE NoErr))

Validate(a) == IF a.err # NoErr THEN a ELSE Fail(a, ValidateResult(a))

\* variant: the block is tagged and linked but Stats is not told
AddToFreelist_NoStats(a, p, size) ==
    SegregatedInsert(WriteTags(a, p, size), p)

AddToFreelist(a, p, size) ==
    OnAddToFreelist(SegregatedInsert(WriteTags(a, p, size), p), size)

RemoveFromFreelist(a, freedBlock) ==
    RemoveTags(SegregatedRemove(OnRemoveFromFreelist(a, Size(a, freedBlock)), freedBlock), freedBlock)

\* the first block of Coalesce: [a |-> state, p |-> start, size |-> size]
CoalescePreceding(a, p, size) ==
    Then(PrecedingBlock(a, p, PoolBase), LAMBDA pr :
        IF pr.blk # 0
        THEN [a |-> RemoveFromFreelist(pr.a, pr.blk),
              p |-> p - Size(pr.a, pr.blk),
              size |-> size + Size(pr.a, pr.blk)]
        ELSE [a |-> pr.a, p |-> p, size |-> size])

\* variant: the following block is unlinked but its size is not added
CoalesceFollowing_SizeKept(a, p, size, g) ==
    Then(FollowingBlock(a, p, size, PoolBase + a.pos, g), LAMBDA fo :
        IF fo.blk # 0
        THEN [a |-> RemoveFromFreelist(fo.a, fo.blk), p |-> p, size |-> size]
        ELSE [a |-> fo.a, p |-> p, size |-> size])

\* the second block of Coalesce
CoalesceFollowing(a, p, size, g) ==
    Then(FollowingBlock(a, p, size, PoolBase + a.pos, g), LAMBDA fo :
        IF fo.blk # 0
        THEN [a |-> RemoveFromFreelist(fo.a, fo.blk),
              p |-> p,
              size |-> size + Size(fo.a, fo.blk)]
        ELSE [a |-> fo.a, p |-> p, size |-> size])

\* [a |-> state, p |-> start, size |-> size of the coalesced block]
Coalesce(a, p, size, g) ==
    IF a.err # NoErr THEN [a |-> a, p |-> p, size |-> size]
    ELSE Then(CoalescePreceding(a, p, size), LAMBDA c1 :
            IF c1.a.err # NoErr THEN c1
            ELSE CoalesceFollowing(c1.a, c1.p, c1.size, g))

\* variant: the leftover is never put back
TakeAndSplitFreeBlock_LeftoverDropped(a, size) ==
    IF a.err # NoErr THEN [a |-> a, p |-> 0]
    ELSE Then(SegregatedFind(a, size), LAMBDA f :
            IF f.blk = 0 THEN [a |-> f.a, p |-> 0]
            ELSE [a |-> RemoveFromFreelist(f.a, f.blk), p |-> f.blk])

\* variant: the leftover is put back at the start of the block taken
TakeAndSplitFreeBlock_LeftoverAtStart(a, size) ==
    IF a.err # NoErr THEN [a |-> a, p |-> 0]
    ELSE Then(SegregatedFind(a, size), LAMBDA f :
            IF f.blk = 0 THEN [a |-> f.a, p |-> 0]
            ELSE Then(Size(f.a, f.blk) - size, LAMBDA leftoverSize :
                 Then(RemoveFromFreelist(f.a, f.blk), LAMBDA a1 :
                    IF IsValidSize(leftoverSize)
                    THEN [a |-> AddToFreelist(a1, f.blk, leftoverSize), p |-> f.blk]
                    ELSE [a |-> a1, p |-> f.blk])))

\* [a |-> state, p |-> start of the block taken, or 0]
TakeAndSplitFreeBlock(a, size) ==
    IF a.err # NoErr THEN [a |-> a, p |-> 0]
    ELSE Then(SegregatedFind(a, size), LAMBDA f :
            IF f.blk = 0 THEN [a |-> f.a, p |-> 0]
            ELSE Then(Size(f.a, f.blk) - size, LAMBDA leftoverSize :
                 Then(RemoveFromFreelist(f.a, f.blk), LAMBDA a1 :
                    IF IsValidSize(leftoverSize)
                    THEN [a |-> AddToFreelist(a1, f.blk + size, leftoverSize), p |-> f.blk]
                    ELSE IF leftoverSize > 0 /\ a1.err = NoErr
                        THEN [a |-> [a1 EXCEPT !.frags = a1.frags \cup {<<f.blk + size, leftoverSize>>}],
                              p |-> f.blk]
                    ELSE [a |-> a1, p |-> f.blk])))

\* variant: Stats counts the allocation before the pointer is tested
Allocate_CountsFirst(a, size) ==
    Then(Validate(IF IsValidSize(size) THEN a ELSE Fail(a, "Allocate size (610)")), LAMBDA a0 :
        IF a0.err # NoErr THEN [a |-> a0, p |-> 0]
        ELSE Then(TakeAndSplitFreeBlock(a0, size), LAMBDA t :
            IF t.a.err # NoErr THEN [a |-> t.a, p |-> 0]
            ELSE Then(IF t.p = 0 THEN pool_alloc(t.a, size) ELSE t, LAMBDA pa :
                Then(OnAllocate(pa.a, size), LAMBDA a1 :
                    IF pa.p = 0 THEN [a |-> a1, p |-> 0]
                    ELSE Then(Validate(a1), LAMBDA a2 :
                            [a |-> a2, p |-> IF a2.err = NoErr THEN pa.p ELSE 0])))))

\* [a |-> state, p |-> the pointer returned (0: none)]
Allocate(a, size) ==
    Then(Validate(IF IsValidSize(size) THEN a ELSE Fail(a, "Allocate size (610)")), LAMBDA a0 :
        IF a0.err # NoErr THEN [a |-> a0, p |-> 0]
        ELSE Then(TakeAndSplitFreeBlock(a0, size), LAMBDA t :
            IF t.a.err # NoErr THEN [a |-> t.a, p |-> 0]
            ELSE Then(IF t.p = 0 THEN pool_alloc(t.a, size) ELSE t, LAMBDA pa :
                IF pa.p = 0 THEN [a |-> pa.a, p |-> 0]
                ELSE Then(Validate(OnAllocate(pa.a, size)), LAMBDA a2 :
                        [a |-> a2, p |-> IF a2.err = NoErr THEN pa.p ELSE 0]))))

\* the debug_asserts that open Deallocate: the first that fails, or NoErr
DeallocatePreconditions(a, p, size) ==
    IF p % minAlignment # 0 THEN "Deallocate alignment (630)"
    ELSE IF ~IsValidSize(size) THEN "Deallocate size (631)"
    ELSE IF ~pool_contains(a, p) THEN "Deallocate pool_contains (632)"
    ELSE IF ~pool_contains(a, p + size - 1) THEN "Deallocate pool_contains (633)"
    ELSE NoErr

\* variant: a coalesced block that ends the pool is handed back to the pool
Deallocate_TailHandedBack(a, p, size, g) ==
    Then(Coalesce(OnDeallocate(Validate(Fail(a, DeallocatePreconditions(a, p, size))), size), p, size, g),
    LAMBDA co :
        IF co.a.err = NoErr /\ co.p + co.size = PoolBase + co.a.pos
        THEN Validate([co.a EXCEPT !.pos = co.p - PoolBase])
        ELSE Validate(AddToFreelist(co.a, co.p, co.size)))

Deallocate(a, p, size, g) ==
    Then(Coalesce(OnDeallocate(Validate(Fail(a, DeallocatePreconditions(a, p, size))), size), p, size, g),
    LAMBDA co :
        Validate(AddToFreelist(co.a, co.p, co.size)))

Reset(a) ==
    Then(OnReset(SegregatedReset(pool_free_all(a))), LAMBDA a3 :
        Validate([a3 EXCEPT !.frags = {}]))

(* ------------------------------- state -------------------------------- *)
VARIABLES
    mem,        \* the pool's storage and the sentinels' link fields, word by word
    pos,        \* m_pool.da.pos
    m_bitmap,   \* SegregatedRangeLists::m_bitmap
    rl,         \* per class: RangeList::m_freeBlocks, m_freeBytes
    btm,        \* BoundaryTagManager::m_freeBlocks, m_freeBytes
    stats,      \* Stats
    err,        \* the debug_assert that has failed ("hang": a loop that never ends)
    tagged,     \* history: blocks WriteTags has tagged and RemoveTags has not erased
    probes,     \* history: the records [lo, hi) the last Deallocate's probes read
    frags,      \* history: sub-minimum leftovers dropped by TakeAndSplitFreeBlock
    live,       \* the caller's blocks: <<p, size>> from Allocate, not yet deallocated
    last,       \* history: the last call and what it returned
    mark        \* history: the free structure as the last Allocate found it, kept
                \* while the only call since is the Deallocate of its block

vars == <<mem, pos, m_bitmap, rl, btm, stats, err, tagged, probes, frags, live, last, mark>>

Impl ==
    [mem |-> mem, pos |-> pos, m_bitmap |-> m_bitmap, rl |-> rl, btm |-> btm,
     stats |-> stats, err |-> err, tagged |-> tagged, probes |-> probes, frags |-> frags]

\* the fields of the allocator after a call that left it as b
Becomes(b) ==
    /\ mem' = b.mem
    /\ pos' = b.pos
    /\ m_bitmap' = b.m_bitmap
    /\ rl' = b.rl
    /\ btm' = b.btm
    /\ stats' = b.stats
    /\ err' = b.err
    /\ tagged' = b.tagged
    /\ probes' = b.probes
    /\ frags' = b.frags

NoMark == [taken |-> FALSE]

\* Impl::Impl: pool_create, BoundaryTagManager(), Reset()
Constructed ==
    Reset([mem |-> [x \in Addrs |-> 0], pos |-> 0, m_bitmap |-> 0,
           rl |-> [c \in Classes |-> [m_freeBlocks |-> 0, m_freeBytes |-> 0]],
           btm |-> [m_freeBlocks |-> 0, m_freeBytes |-> 0],
           stats |-> ZeroStats, err |-> NoErr, tagged |-> {}, probes |-> {}, frags |-> {}])

Init ==
    /\ mem = Constructed.mem
    /\ pos = Constructed.pos
    /\ m_bitmap = Constructed.m_bitmap
    /\ rl = Constructed.rl
    /\ btm = Constructed.btm
    /\ stats = Constructed.stats
    /\ err = Constructed.err
    /\ tagged = Constructed.tagged
    /\ probes = Constructed.probes
    /\ frags = Constructed.frags
    /\ live = {}
    /\ last = [op |-> "new", p |-> 0, size |-> 0, ret |-> 0]
    /\ mark = NoMark

(* ------------------------- views of the state ------------------------- *)
\* the blocks linked into class c's list, as <<start, size>>
ListBlocks(a, c) ==
    LET w == Forward(a, c) IN { <<w.seq[i], Size(a, w.seq[i])>> : i \in 1 .. Len(w.seq) }
\* the tracked free blocks: those linked into some RangeList
FreeBlocksOf(a) == UNION { ListBlocks(a, c) : c \in Classes }
FreeBlocks == FreeBlocksOf(Impl)

End(b) == b[1] + b[2]
Overlap(b1, b2) == b1[1] < End(b2) /\ b2[1] < End(b1)

RECURSIVE SumOfSizes(_)
SumOfSizes(blocks) ==
    IF blocks = {} THEN 0
    ELSE LET b == CHOOSE x \in blocks : TRUE IN b[2] + SumOfSizes(blocks \ {b})

\* what the free structure and the three tallies are now
Snapshot ==
    [taken |-> TRUE, free |-> FreeBlocks, m_bitmap |-> m_bitmap, rl |-> rl, btm |-> btm,
     m_currentFreeBlocks |-> stats.m_currentFreeBlocks,
     m_currentFreeBytes |-> stats.m_currentFreeBytes, pos |-> pos]

\* sizes a caller may pass: the ones IsValidSize accepts
AllocSizes == { n * minAlignment : n \in 1 .. MaxSizeGranules } \cap { n \in 1 .. (MaxSizeGranules * minAlignment) : IsValidSize(n) }
\* what a read of memory the pool never handed out may yield
OobValues == {0, s_headerId}

DoAllocate(size) ==
    /\ err = NoErr
    /\ stats.m_totalAllocatedBlocks < MaxAllocs
    /\ \E r \in {Allocate([Impl EXCEPT !.probes = {}], size)} :
           /\ Becomes(r.a)
           /\ live' = IF r.p # 0 THEN live \cup {<<r.p, size>>} ELSE live
           /\ last' = [op |-> "Allocate", p |-> 0, size |-> size, ret |-> r.p]
    /\ mark' = Snapshot

DoDeallocate(p, size) ==
    /\ err = NoErr
    /\ <<p, size>> \in live
    /\ \E g \in OobValues : \E b \in {Deallocate([Impl EXCEPT !.probes = {}], p, size, g)} :
          Becomes(b)
    /\ live' = live \ {<<p, size>>}
    /\ last' = [op |-> "Deallocate", p |-> p, size |-> size, ret |-> 0]
    /\ mark' = IF last.op = "Allocate" /\ last.ret = p /\ last.size = size THEN mark ELSE NoMark

DoReset ==
    /\ err = NoErr
    /\ \E b \in {Reset([Impl EXCEPT !.probes = {}])} : Becomes(b)
    /\ live' = {}
    /\ last' = [op |-> "Reset", p |-> 0, size |-> 0, ret |-> 0]
    /\ mark' = NoMark

Next ==
    \/ \E size \in AllocSizes : DoAllocate(size)
    \/ \E b \in live : DoDeallocate(b[1], b[2])
    \/ DoReset

Spec == Init /\ [][Next]_vars

\* Deallocate(p, size) of a block that is tracked as free already
DoDoubleFree(p, size) ==
    /\ err = NoErr
    /\ \E g \in OobValues : \E b \in {Deallocate([Impl EXCEPT !.probes = {}], p, size, g)} :
          Becomes(b)
    /\ live' = live
    /\ last' = [op |-> "DoubleFree", p |-> p, size |-> size, ret |-> 0]
    /\ mark' = NoMark

NextDoubleFree ==
    \/ Next
    \/ \E b \in FreeBlocks : DoDoubleFree(b[1], b[2])

\* the calls of Spec, and double frees
SpecDoubleFree == Init /\ [][NextDoubleFree]_vars

(* ------------------------------- claims ------------------------------- *)
FreeTalliesAgree ==
    /\ AssertEqual(stats.m_currentFreeBlocks, SegregatedFreeBlocks(Impl), btm.m_freeBlocks)
    /\ AssertEqual(stats.m_currentFreeBytes, SegregatedFreeBytes(Impl), btm.m_freeBytes)

\* the last Allocate was served from the free structure, not from the pool's end
ServedFromFreeBlock ==
    /\ last.op = "Allocate"
    /\ last.ret # 0
    /\ last.ret + last.size < PoolBase + pos

\* C1: every live region [p, p+size) lies inside [base, base+pos), pos never
\* exceeds the capacity of the pool, no two live regions overlap, and no live
\* region overlaps a tracked free block.
C1_LiveRegionsSafe ==
    /\ pos <= PoolSize
    /\ \A b \in live : PoolBase <= b[1] /\ End(b) <= PoolBase + pos
    /\ \A b1, b2 \in live : b1 # b2 => ~Overlap(b1, b2)
    /\ \A b \in live : \A f \in FreeBlocks : ~Overlap(b, f)

\* a block was carved from a free block and its tail is tracked as free
C1_Witness ==
    /\ ServedFromFreeBlock
    /\ err = NoErr
    /\ <<last.ret, last.size>> \in live
    /\ \E f \in FreeBlocks : f[1] = last.ret + last.size

\* C2: after every completed Allocate or Deallocate the free-block counts of
\* Stats, SegregatedRangeLists and BoundaryTagManager are equal, so are their
\* free-byte totals, and no AssertEqual of Validate has failed in the call.
C2_TalliesAgree ==
    last.op \in {"Allocate", "Deallocate"} =>
        /\ err \notin {"AssertEqual blocks (651)", "AssertEqual bytes (652)"}
        /\ err = NoErr => FreeTalliesAgree

\* two free blocks are tracked after a Deallocate
C2_Witness ==
    /\ last.op = "Deallocate"
    /\ err = NoErr
    /\ stats.m_currentFreeBlocks = 2
    /\ Cardinality(FreeBlocks) = 2

\* C3: after Reset() the free-block counts and free-byte totals of Stats,
\* SegregatedRangeLists and BoundaryTagManager are all zero and the Validate()
\* that ends Reset passes.
C3_ResetZeroesAllTallies ==
    last.op = "Reset" =>
        /\ err = NoErr
        /\ stats.m_currentFreeBlocks = 0 /\ stats.m_currentFreeBytes = 0
        /\ SegregatedFreeBlocks(Impl) = 0 /\ SegregatedFreeBytes(Impl) = 0
        /\ btm.m_freeBlocks = 0 /\ btm.m_freeBytes = 0

\* C4: every tracked free block (tagged by BoundaryTagManager or linked into a
\* RangeList) has a size that is a multiple of 16 and at least 2*S, and its
\* header and its footer carry that size.
C4_FreeBlocksHoldBothTags ==
    last.op # "Reset" =>
        \A t \in tagged \cup FreeBlocks :
            /\ t[2] % minAlignment = 0
            /\ t[2] >= 2 * sizeofFreedBlock
            /\ Size(Impl, t[1]) = t[2]
            /\ Size(Impl, End(t) - sizeofFreedBlock) = t[2]

\* C5: after a completed Deallocate every byte of [base, base+pos) belongs to a
\* live allocation or to a tracked free block, so that extant bytes plus
\* tracked free bytes equals pos.
C5_EveryByteLiveOrFree ==
    (last.op = "Deallocate" /\ err = NoErr) =>
        /\ stats.m_currentExtantBytes + stats.m_currentFreeBytes = pos
        /\ \A x \in PoolBase .. (PoolBase + pos - 1) :
              \E b \in live \cup FreeBlocks : b[1] <= x /\ x < End(b)

\* C6: the records read by PrecedingBlock and FollowingBlock during a
\* Deallocate lie entirely inside [base, base+pos).
C6_ProbesInsidePool ==
    \A r \in probes : PoolBase <= r[1] /\ r[2] <= PoolBase + pos

\* C7: no two tracked free blocks are adjacent.
C7_NoAdjacentFreeBlocks ==
    \A b1, b2 \in FreeBlocks : End(b1) # b2[1]

\* a Deallocate has merged the block with a free neighbour, and another free
\* block is tracked as well
C7_Witness ==
    /\ last.op = "Deallocate"
    /\ err = NoErr
    /\ \E f \in FreeBlocks : f[1] <= last.p /\ last.p + last.size <= End(f) /\ f[2] > last.size

\* C8: a Deallocate of a block that is tracked as free already ends in an
\* assertion failure: it neither completes nor loops.
C8_DoubleFreeAsserts ==
    last.op = "DoubleFree" => err \notin {NoErr, "hang"}

\* C9: an Allocate(size) that finds no tracked free block of at least size
\* bytes, with the pool unable to supply size more bytes, returns null, raises
\* no assertion and leaves pos, the lists, the bitmap, the tags and every
\* tally unchanged.
C9_FailedAllocateChangesNothing ==
    [][ ( /\ err = NoErr
          /\ last'.op = "Allocate"
          /\ \A f \in FreeBlocks : f[2] < last'.size
          /\ pos + last'.size > PoolSize )
        => ( /\ last'.ret = 0
             /\ err' = NoErr
             /\ UNCHANGED <<mem, pos, m_bitmap, rl, btm, stats, tagged, live>> ) ]_vars

\* an Allocate has returned null while a (too small) free block was tracked
C9_Witness ==
    /\ last.op = "Allocate"
    /\ last.ret = 0
    /\ err = NoErr
    /\ FreeBlocks # {}
    /\ live # {}

\* the tracked free blocks that end at p / start at q
EndingAt(blocks, p) == { f \in blocks : End(f) = p }
StartingAt(blocks, q) == { f \in blocks : f[1] = q }
\* the block Deallocate(p, size) must leave, given the free blocks before it
Merged(blocks, p, size) ==
    LET lo == IF EndingAt(blocks, p) = {} THEN p
              ELSE (CHOOSE f \in EndingAt(blocks, p) : TRUE)[1]
        hi == IF StartingAt(blocks, p + size) = {} THEN p + size
              ELSE End(CHOOSE f \in StartingAt(blocks, p + size) : TRUE)
    IN  <<lo, hi - lo>>

\* C10: a Deallocate(p, size) of a live block leaves exactly one tracked free
\* block over [p, p+size), from the start of the free block that ended at p (or
\* p) to the end of the free block that started at p+size (or p+size); the
\* free-block count changes by 1 minus the number of merged neighbours and the
\* free-byte total grows by size.  (A block of at least 2*S bytes is always
\* deallocated without an assertion.)
C10_DeallocateCoalesces ==
    [][ ( err = NoErr /\ last'.op = "Deallocate" ) =>
          LET p == last'.p
              size == last'.size
              gone == EndingAt(FreeBlocks, p) \cup StartingAt(FreeBlocks, p + size)
          IN  /\ <<p, size>> \in live
              /\ size >= 2 * sizeofFreedBlock => err' = NoErr
              /\ err' = NoErr =>
                    /\ FreeBlocks' = (FreeBlocks \ gone) \cup {Merged(FreeBlocks, p, size)}
                    /\ Cardinality({ f \in FreeBlocks' : Overlap(f, <<p, size>>) }) = 1
                    /\ stats'.m_currentFreeBlocks = stats.m_currentFreeBlocks + 1 - Cardinality(gone)
                    /\ stats'.m_currentFreeBytes = stats.m_currentFreeBytes + size
                    /\ SumOfSizes(FreeBlocks') = SumOfSizes(FreeBlocks) + size ]_vars

\* a Deallocate has merged the block with a free block on either side
C10_Witness ==
    /\ last.op = "Deallocate"
    /\ err = NoErr
    /\ \E f \in FreeBlocks : f[1] < last.p /\ last.p + last.size < End(f)

\* a size the spec calls valid: room for a header and a footer, in granules
IsTrackableSize(size) == size >= 2 * sizeofFreedBlock /\ size % minAlignment = 0

\* the last two calls were an Allocate served from a tracked free block that
\* left a tail of valid size, and the Deallocate of the block it returned
RoundTripMade ==
    /\ last.op = "Deallocate"
    /\ mark.taken
    /\ \E b \in mark.free : b[1] = last.p /\ IsTrackableSize(b[2] - last.size)

\* C11: when Allocate(s) is served from a tracked free block of size s+t, t a
\* valid size, the Deallocate of the returned block that follows immediately
\* completes and restores the set of tracked free blocks, the bitmap and the
\* free tallies of Stats, the lists and the tags as they were before.
C11_SplitCoalesceRoundTrip ==
    RoundTripMade =>
        /\ err = NoErr
        /\ FreeBlocks = mark.free
        /\ m_bitmap = mark.m_bitmap
        /\ rl = mark.rl
        /\ btm = mark.btm
        /\ stats.m_currentFreeBlocks = mark.m_currentFreeBlocks
        /\ stats.m_currentFreeBytes = mark.m_currentFreeBytes

\* such a round trip has been made and has returned
C11_Witness ==
    /\ RoundTripMade
    /\ err = NoErr
    /\ pos = mark.pos

\* the tracked free blocks the last Allocate was served from (one or none):
\* the block found free at the address the Allocate returned
ServedFrom == IF last.op = "Allocate" /\ mark.taken
              THEN { b \in mark.free : b[1] = last.ret }
              ELSE {}

\* C12: when Allocate(size) is served from the tracked free block at a of size
\* n and n - size is a valid size, it returns a, the block at a is no longer
\* tracked, the only new tracked free block is <<a+size, n-size>>, the
\* free-block count is unchanged and the free-byte total is smaller by size.
C12_SplitLeavesTail ==
    \A b \in ServedFrom :
        IsTrackableSize(b[2] - last.size) =>
            /\ err = NoErr
            /\ FreeBlocks = (mark.free \ {b}) \cup {<<b[1] + last.size, b[2] - last.size>>}
            /\ <<b[1] + last.size, b[2] - last.size>> \notin mark.free
            /\ stats.m_currentFreeBlocks = mark.m_currentFreeBlocks
            /\ stats.m_currentFreeBytes = mark.m_currentFreeBytes - last.size
            /\ btm.m_freeBlocks = mark.btm.m_freeBlocks
            /\ btm.m_freeBytes = mark.btm.m_freeBytes - last.size
            /\ SegregatedFreeBlocks(Impl) = mark.m_currentFreeBlocks
            /\ SegregatedFreeBytes(Impl) = mark.m_currentFreeBytes - last.size
            /\ pos = mark.pos

\* an Allocate has split a free block and left a tail of valid size
C12_Witness ==
    /\ err = NoErr
    /\ \E b \in ServedFrom : IsTrackableSize(b[2] - last.size)

\* the blocks of a set of free blocks that can hold size bytes
Fitting(blocks, size) == { b \in blocks : b[2] >= size }

\* the last call was an Allocate that found fitting free blocks, each of them
\* larger than the request by an amount that is not a valid size
OnlyUntrackableLeftovers ==
    /\ last.op = "Allocate"
    /\ mark.taken
    /\ Fitting(mark.free, last.size) # {}
    /\ \A b \in Fitting(mark.free, last.size) :
          b[2] > last.size /\ ~IsTrackableSize(b[2] - last.size)

\* C13: when Allocate(size) is served from a tracked free block that exceeds
\* size by an amount that is not a valid size, the Allocate returns the start
\* of that block and creates no free block for the leftover: the free-block
\* count drops by one and the free-byte total by the whole size of the block.
C13_LeftoverAbsorbed ==
    OnlyUntrackableLeftovers =>
        /\ err = NoErr
        /\ \E b \in Fitting(mark.free, last.size) :
              /\ last.ret = b[1]
              /\ FreeBlocks = mark.free \ {b}
              /\ stats.m_currentFreeBlocks = mark.m_currentFreeBlocks - 1
              /\ stats.m_currentFreeBytes = mark.m_currentFreeBytes - b[2]

\* C14: Allocate(size) advances pos only when no tracked free block has at
\* least size bytes; the miss-path assertion of SegregatedRangeLists::Find
\* never fails; and whenever a fitting block exists Allocate returns the
\* start of a tracked free block and leaves pos unchanged.
C14_BumpOnlyOnMiss ==
    (last.op = "Allocate" /\ mark.taken) =>
        /\ err # "SegregatedRangeLists::Find bitmap (301)"
        /\ pos # mark.pos => Fitting(mark.free, last.size) = {}
        /\ Fitting(mark.free, last.size) # {} =>
              /\ err = NoErr
              /\ pos = mark.pos
              /\ \E b \in mark.free : b[1] = last.ret

\* C15: after every operation Stats has deallocated no more blocks and no more
\* bytes than it has allocated, and its extant blocks and bytes are the
\* allocated ones less the deallocated ones.
C15_StatsBalance ==
    /\ stats.m_totalDeallocatedBlocks <= stats.m_totalAllocatedBlocks
    /\ stats.m_totalDeallocatedBytes <= stats.m_totalAllocatedBytes
    /\ stats.m_currentExtantBlocks = stats.m_totalAllocatedBlocks - stats.m_totalDeallocatedBlocks
    /\ stats.m_currentExtantBytes = stats.m_totalAllocatedBytes - stats.m_totalDeallocatedBytes
    /\ stats.m_currentExtantBlocks = Cardinality(live)
    /\ stats.m_currentExtantBytes = SumOfSizes(live)

\* blocks have been deallocated while another one is still live
C15_Witness ==
    /\ err = NoErr
    /\ last.op = "Deallocate"
    /\ stats.m_totalDeallocatedBlocks >= 2
    /\ stats.m_currentExtantBlocks >= 1

\* class i > 0 holds the sizes of (2**(i-1), 2**i], class 0 the size 1
InClass(size, i) ==
    IF i = 0 THEN size = 1 ELSE Pow2(i - 1) < size /\ size <= Pow2(i)

\* C16: for every size class i, bit i of the bitmap is set exactly when the
\* RangeList of class i is not empty; every tracked free block is linked into
\* the list of the class of its size and into no other list, and after a
\* completed call the linked blocks are the tagged ones.
C16_BitmapMatchesLists ==
    /\ \A i \in Classes : BitSet(m_bitmap, i) <=> ListBlocks(Impl, i) # {}
    /\ \A i \in Classes : \A b \in ListBlocks(Impl, i) : InClass(b[2], i)
    /\ \A i, j \in Classes :
          i # j => \A b \in ListBlocks(Impl, i) : \A d \in ListBlocks(Impl, j) : b[1] # d[1]
    /\ err = NoErr => tagged = FreeBlocks

\* a Deallocate has linked a second block into a list whose bit is set
C16_Witness ==
    /\ err = NoErr
    /\ last.op = "Deallocate"
    /\ \E i \in Classes : BitSet(m_bitmap, i) /\ Cardinality(ListBlocks(Impl, i)) = 2

\* C17: the bump pointer never decreases between two Resets: a Deallocate
\* leaves pos unchanged, an Allocate leaves it unchanged or raises it by the
\* size requested, and only Reset lowers it, to zero.
C17_PosOnlyRises ==
    [][ /\ last'.op = "Deallocate" => pos' = pos
        /\ last'.op = "Allocate" => (pos' = pos \/ pos' = pos + last'.size)
        /\ pos' < pos => (last'.op = "Reset" /\ pos' = 0) ]_vars

\* a Deallocate has freed the block that ends the pool and pos has stayed
C17_Witness ==
    /\ last.op = "Deallocate"
    /\ err = NoErr
    /\ pos > 0
    /\ \E f \in FreeBlocks : End(f) = PoolBase + pos
    /\ live # {}

\* the least class that holds a block of a non-empty set of blocks
LowestClass(blocks) ==
    CHOOSE i \in Classes :
        /\ \E b \in blocks : InClass(b[2], i)
        /\ \A j \in Classes : (\E b \in blocks : InClass(b[2], j)) => i <= j

\* address-ordered good fit: the start of the lowest block, among those of
\* at least size bytes, of the lowest class that holds one (0: none fits)
GoodFit(blocks, size) ==
    IF Fitting(blocks, size) = {} THEN 0
    ELSE LET c == LowestClass(Fitting(blocks, size))
             cand == { b \in Fitting(blocks, size) : InClass(b[2], c) }
         IN  (CHOOSE b \in cand : \A d \in cand : b[1] <= d[1])[1]

\* C18: the block an Allocate(size) is served from, and the block
\* SegregatedRangeLists::Find(size) picks in any state, is the block of
\* lowest address among those of at least size bytes in the lowest size
\* class that holds such a block.
C18_AddressOrderedGoodFit ==
    /\ \A b \in ServedFrom : b[1] = GoodFit(mark.free, last.size)
    /\ err = NoErr =>
          \A size \in AllocSizes :
              /\ SegregatedFind(Impl, size).a.err = NoErr
              /\ SegregatedFind(Impl, size).blk = GoodFit(FreeBlocks, size)

\* two tracked free blocks fit a size, the one of the lower class at the
\* higher address
C18_Witness ==
    /\ err = NoErr
    /\ \E size \in AllocSizes : \E b, d \in Fitting(FreeBlocks, size) :
          /\ LowestClass({b}) < LowestClass({d})
          /\ b[1] > d[1]

\* C19: every RangeList is a circular doubly-linked list through its
\* sentinel: following next from the sentinel visits its blocks in strictly
\* ascending address order and returns to the sentinel, following prev visits
\* the same blocks in reverse, and the number and the total size of the
\* blocks visited are the list's m_freeBlocks and m_freeBytes.
C19_ListsWellFormed ==
    \A c \in Classes :
        LET fw == Forward(Impl, c)
            bw == Backward(Impl, c)
            n == Len(fw.seq)
        IN  /\ fw.ok /\ bw.ok
            /\ \A i \in 1 .. (n - 1) : fw.seq[i] < fw.seq[i + 1]
            /\ Len(bw.seq) = n
            /\ \A i \in 1 .. n : bw.seq[i] = fw.seq[n + 1 - i]
            /\ \A i \in 1 .. n : fw.seq[i] \in PoolWords
            /\ n = rl[c].m_freeBlocks
            /\ SumSizes(Impl, fw.seq, 1) = rl[c].m_freeBytes

\* a Deallocate has linked its block in front of another block of the list
C19_Witness ==
    /\ err = NoErr
    /\ last.op = "Deallocate"
    /\ \E c \in Classes :
          /\ Len(Forward(Impl, c).seq) = 2
          /\ Forward(Impl, c).seq[1] = last.p

\* the classes SegregatedRangeLists::Find(size) searches
Searched(size) == { c \in Classes : c >= SizeClass(size) /\ BitSet(m_bitmap, c) }

\* C20: RangeList::Find(minSize) is only invoked on a list whose m_freeBlocks
\* is not zero, so that its miss-path assertion never divides by zero, and
\* on every miss m_freeBytes / m_freeBlocks < minSize holds.
C20_FindMissAssertionHolds ==
    /\ err \notin {"RangeList::Find division by zero (188)", "RangeList::Find average (188)"}
    /\ \A size \in AllocSizes : \A c \in Searched(size) : rl[c].m_freeBlocks # 0
    /\ err = NoErr =>
          \A size \in AllocSizes : \A c \in Searched(size) :
              /\ RangeListFind(Impl, c, size).a.err = NoErr
              /\ RangeListFind(Impl, c, size).blk = 0 =>
                    rl[c].m_freeBytes \div rl[c].m_freeBlocks < size

\* an Allocate has searched a list, missed there and completed
C20_Witness ==
    /\ last.op = "Allocate"
    /\ err = NoErr
    /\ mark.taken
    /\ last.ret # 0
    /\ \E b \in mark.free : InClass(b[2], SizeClass(last.size))
    /\ \A b \in mark.free : InClass(b[2], SizeClass(last.size)) => b[2] < last.size

====
